---- MODULE Spec2Model ----
(***************************************************************************)
(* usbcat: the event loop of main() and the transfer completion callback   *)
(* usb_callback() of src/usbcat.c, as a state machine.                     *)
(*                                                                         *)
(* The two buffer queues (usb_write_buf: stdin -> USB OUT endpoint,        *)
(* usb_read_buf: USB IN endpoint -> stdout), the pollfd array, the         *)
(* transfers in flight at the device and the position of main() in its     *)
(* loop are the state.  poll(), read(), write(), libusb_submit_transfer()  *)
(* and the device are the environment: their results are drawn from small  *)
(* sets.                                                                   *)
(***************************************************************************)
EXTENDS Integers, Sequences, FiniteSets, TLC

\* ---------------------------------------------------------------- constants
USB_XFER_SZ == 512
USB_BUFS == 2
EXIT_SUCCESS == 0
EXIT_FAILURE == 1

\* ------------------------------------------------------------------- bounds
\* Number of IN transfers that complete in one behaviour.
MaxIn == 2

\* The actual_length values the device reports for a completed IN transfer.
InLens == {0, 3}

\* Byte counts the input source writes to stdin before it closes it.
Offers == {100, 600}

Dirs == {"w", "r"}
POLLIN == "POLLIN"
POLLOUT == "POLLOUT"
POLLHUP == "POLLHUP"
POLLERR == "POLLERR"
fd_in == "STDIN_FILENO"
fd_out == "STDOUT_FILENO"
fd_usb == "usb_fds"

\* Transfer statuses delivered to the callback.
Statuses == {"LIBUSB_TRANSFER_COMPLETED", "LIBUSB_TRANSFER_TIMED_OUT",
             "LIBUSB_TRANSFER_ERROR", "LIBUSB_TRANSFER_CANCELLED",
             "LIBUSB_TRANSFER_STALL", "LIBUSB_TRANSFER_NO_DEVICE",
             "LIBUSB_TRANSFER_OVERFLOW"}
\* Results of the libusb calls.
LibusbResults == {"LIBUSB_SUCCESS", "LIBUSB_ERROR_IO"}
\* errno values of a failed read(), write() or poll().
Errnos == {"EINTR", "EAGAIN", "EIO"}

NoBuf == -1
Min(a, b) == IF a < b THEN a ELSE b

VARIABLES
    cfg,          \* [w, r]: write_ep >= 0, read_ep >= 0
    queue,        \* [w |-> usb_write_buf, r |-> usb_read_buf]
    fds,          \* the pollfd array: sequence of [fd, events]
    revents,      \* revents[k], as poll() left it, of the descriptors not yet scanned
    xfer,         \* [dir][buffer]: the libusb_transfer and its data buffer
    inflight,     \* [dir]: transfers submitted to the device, oldest first
    pc,           \* position of main(): test, poll, scan, usb, exit, abort
    i,            \* index of the for loop over fds (1-based)
    ret,          \* main()'s ret: the count poll() returned
    status,       \* the process exit status once pc = "exit"
    ev,           \* what the last step did (reads, writes, submissions, ...)
    in_pos,       \* bytes of stdin consumed so far (stdin's file position)
    in_avail,     \* bytes the input source has written to stdin, not yet read
    n_reads,      \* number of stdin reads that returned data
    sub_pos,      \* bytes handed to the device in OUT transfers so far
    last_submit,  \* <<first byte, length>> of the last OUT transfer submitted
    submit_log,   \* the lengths of the OUT transfers submitted after a read, in order
    dev_pos,      \* bytes the device delivered in completed IN transfers
    n_in,         \* number of IN transfers completed
    out_pos,      \* bytes written to stdout so far (stdout's file position)
    last_write    \* <<first byte, k>> of the last write to stdout with k > 0

vars == <<cfg, queue, fds, revents, xfer, inflight, pc, i, ret, status, ev, in_pos, in_avail,
          n_reads, sub_pos, last_submit, submit_log, dev_pos, n_in, out_pos, last_write>>

usb_write_buf == queue.w
usb_read_buf == queue.r
fd_num == Len(fds)

\* struct buffer_queue_t.  buf[s] is the buffer (transfer + data) stored in
\* slot s, NoBuf for a slot never written; pollfd indexes fds, 0 is NULL.
\* xfer_length and xfer_written are not initialised by main(); they are read
\* only after usb_callback has set them, and start here as 0.
buffer_queue_t(head, tail, slots, pfd) ==
    [buf |-> slots, buf_tail |-> tail, buf_head |-> head, pollfd |-> pfd,
     xfer_length |-> 0, xfer_written |-> 0, shutdown |-> FALSE, error |-> FALSE]

\* struct libusb_transfer with the buffer it points at: length is the
\* requested length, actual_length the transferred one, data the contents
\* of the buffer as <<position in its stream of the first byte, count>>:
\* stdin's bytes are numbered 1, 2, ... as read, the bytes the device sends
\* 1, 2, ... as its IN transfers complete.
libusb_alloc_transfer == [length |-> 0, actual_length |-> 0, data |-> <<0, 0>>]

\* main(), lines 299-329: the outbound queue.  With a write endpoint the
\* first USB_BUFS - 1 slots hold allocated buffers and tail = USB_BUFS - 1.
InitWriteQueue(w) ==
    IF w
    THEN buffer_queue_t(0, USB_BUFS - 1,
                        [s \in 0..(USB_BUFS - 1) |-> IF s < USB_BUFS - 1 THEN s ELSE NoBuf], 1)
    ELSE buffer_queue_t(0, 0, [s \in 0..(USB_BUFS - 1) |-> NoBuf], 0)

\* main(), lines 331-369: the inbound queue is empty, its USB_BUFS - 1
\* transfers are submitted to the device.
InitReadQueue(w, r) ==
    buffer_queue_t(0, 0, [s \in 0..(USB_BUFS - 1) |-> NoBuf],
                   IF r THEN (IF w THEN 2 ELSE 1) ELSE 0)

InitFds_AlwaysStdin(w, r) ==
    <<[fd |-> fd_in, events |-> {POLLIN, POLLHUP, POLLERR}]>>
    \o (IF r THEN <<[fd |-> fd_out, events |-> {POLLHUP, POLLERR}]>> ELSE <<>>)
    \o <<[fd |-> fd_usb, events |-> {POLLIN}]>>

\* main(), lines 320-322, 361-363, 372-377: the poll set.
InitFds(w, r) ==
    (IF w THEN <<[fd |-> fd_in, events |-> {POLLIN, POLLHUP, POLLERR}]>> ELSE <<>>)
    \o (IF r THEN <<[fd |-> fd_out, events |-> {POLLHUP, POLLERR}]>> ELSE <<>>)
    \o <<[fd |-> fd_usb, events |-> {POLLIN}]>>

InitInflight(r) ==
    [d \in Dirs |-> IF d = "r" /\ r
                    THEN [k \in 1..(USB_BUFS - 1) |-> k - 1]
                    ELSE <<>>]

Init ==
    /\ cfg \in {c \in [w : BOOLEAN, r : BOOLEAN] : c.w \/ c.r}
    /\ queue = [w |-> InitWriteQueue(cfg.w), r |-> InitReadQueue(cfg.w, cfg.r)]
    /\ fds = InitFds(cfg.w, cfg.r)
    /\ revents = [k \in 1..Len(fds) |-> {}]
    /\ xfer = [d \in Dirs |-> [b \in 0..(USB_BUFS - 2) |->
                  IF d = "r" /\ cfg.r
                  THEN [libusb_alloc_transfer EXCEPT !.length = USB_XFER_SZ]
                  ELSE libusb_alloc_transfer]]
    /\ inflight = InitInflight(cfg.r)
    /\ pc = "test"
    /\ i = 1
    /\ ret = 0
    /\ status = EXIT_SUCCESS
    /\ ev = {}
    /\ in_pos = 0
    /\ in_avail \in (IF cfg.w THEN Offers ELSE {0})
    /\ n_reads = 0
    /\ sub_pos = 0
    /\ last_submit = <<0, 0>>
    /\ submit_log = <<>>
    /\ dev_pos = 0
    /\ n_in = 0
    /\ out_pos = 0
    /\ last_write = <<0, 0>>

\* ------------------------------------------------------------ the main loop
\* Mutants of LoopCondition: the loop ends as soon as stdin is shut down,
\* without waiting for the OUT transfers; the inbound error flag is not tested.
LoopCondition_NoDrain ==
    /\ ~usb_write_buf.error
    /\ ~usb_read_buf.error
    /\ ~usb_write_buf.shutdown

LoopCondition_NoReadError ==
    /\ ~usb_write_buf.error
    /\ (~usb_write_buf.shutdown
        \/ (usb_write_buf.buf_tail + 1) % USB_BUFS # usb_write_buf.buf_head)

LoopCondition_NoShutdownExit ==
    /\ ~usb_write_buf.error
    /\ ~usb_read_buf.error

\* The condition of the while loop, lines 383-386.
LoopCondition ==
    /\ ~usb_write_buf.error
    /\ ~usb_read_buf.error
    /\ (~usb_write_buf.shutdown
        \/ (usb_write_buf.buf_tail + 1) % USB_BUFS # usb_write_buf.buf_head)

\* Lines 383-386 and 523-527: test the loop condition; when it is false
\* release the device and return EXIT_SUCCESS.
main_loop_test ==
    /\ pc = "test"
    /\ IF LoopCondition
       THEN pc' = "poll" /\ status' = status
       ELSE pc' = "exit" /\ status' = EXIT_SUCCESS
    /\ ev' = {"test"}
    /\ UNCHANGED <<cfg, queue, fds, revents, xfer, inflight, i, ret, in_pos, in_avail,
                   n_reads, sub_pos, last_submit, submit_log, dev_pos, n_in, out_pos, last_write>>

\* What poll() may report in revents for one descriptor: the requested events, and
\* POLLHUP or POLLERR whether requested or not.
PollResults(p) ==
    {rv \in SUBSET (p.events \cup {POLLHUP, POLLERR}) : ~({POLLHUP, POLLERR} \subseteq rv)}

\* The revents of a descriptor is read once, when the for loop reaches it,
\* and overwritten by the next poll(): it is dropped from the state once the
\* loop is past it.
ClearRevents == [k \in 1..fd_num |-> {}]
Scanned(k) == [revents EXCEPT ![k] = {}]

\* The revents poll() may fill in for the first k descriptors.  The USB
\* descriptors, the last entry, report POLLIN only.  For stdin a hang-up or
\* error comes together with POLLIN when POLLIN is asked for and bytes are
\* waiting to be read; with POLLIN withdrawn it is reported alone.
RECURSIVE PollVectors(_)
PollVectors(k) ==
    IF k = 0
    THEN {<<>>}
    ELSE {Append(v, rv) :
             v \in PollVectors(k - 1),
             rv \in {r \in PollResults(fds[k]) :
                       /\ k = fd_num => r \subseteq {POLLIN}
                       /\ (/\ fds[k].fd = fd_in
                           /\ POLLIN \in fds[k].events
                           /\ in_avail > 0
                           /\ r \cap {POLLHUP, POLLERR} # {}) => POLLIN \in r}}

\* Lines 388-389, 513-520: poll() returns the number of descriptors with a
\* non-empty revents, or fails.  EINTR restarts the loop, any other errno
\* ends the process.
main_poll ==
    /\ pc = "poll"
    /\ \/ \E rv \in PollVectors(fd_num) :
             /\ \E k \in 1..fd_num : rv[k] # {}
             /\ revents' = [k \in 1..fd_num |-> rv[k]]
             /\ ret' = Cardinality({k \in 1..fd_num : rv[k] # {}})
             /\ i' = 1
             /\ pc' = "scan"
             /\ status' = status
             /\ ev' = {"poll"}
       \/ \E e \in Errnos :
             /\ revents' = revents
             /\ ret' = -1
             /\ i' = i
             /\ IF e = "EINTR"
                THEN pc' = "test" /\ status' = status
                ELSE pc' = "exit" /\ status' = EXIT_FAILURE
             /\ ev' = {"poll", "poll:" \o e}
    /\ UNCHANGED <<cfg, queue, fds, xfer, inflight, in_pos, in_avail,
                   n_reads, sub_pos, last_submit, submit_log, dev_pos, n_in, out_pos, last_write>>

\* ------------------------------------------------------- the scan of fds
\* Line 391: the for loop runs while i != fd_num && ret != 0.
InScan == pc = "scan" /\ i <= fd_num /\ ret # 0

\* Line 393: fds[i].events & revents[i].
Dispatch(k) == fds[k].events \cap revents[k] # {}

\* (x + 1) % USB_BUFS, lines 78, 386, 420, 477.
Advance(x) == (x + 1) % USB_BUFS

ReadSize_Full == USB_XFER_SZ

\* The byte count passed to read(), line 406.
ReadSize == USB_XFER_SZ \div 2

\* Line 391: the for loop ends, control returns to the while condition.
main_scan_end ==
    /\ pc = "scan"
    /\ ~(i <= fd_num /\ ret # 0)
    /\ pc' = "test"
    /\ i' = 1
    /\ revents' = ClearRevents
    /\ ev' = {"scan_end"}
    /\ UNCHANGED <<cfg, queue, fds, xfer, inflight, ret, status, in_pos, in_avail,
                   n_reads, sub_pos, last_submit, submit_log, dev_pos, n_in, out_pos, last_write>>

\* Lines 391-393: a descriptor with no requested event reported is skipped.
main_scan_skip ==
    /\ InScan
    /\ ~Dispatch(i)
    /\ i' = i + 1
    /\ revents' = Scanned(i)
    /\ ev' = {"skip"}
    /\ UNCHANGED <<cfg, queue, fds, xfer, inflight, pc, ret, status, in_pos, in_avail,
                   n_reads, sub_pos, last_submit, submit_log, dev_pos, n_in, out_pos, last_write>>

\* ------------------------------------------------------------ stdin handler
\* Results of read(fd_in, b->data, USB_XFER_SZ / 2) with avail bytes unread
\* in stdin: data (read() takes as many of the avail bytes as the count
\* allows), end of file once nothing is left, or failure with an errno.
ReadResults(avail) ==
    {[kind |-> "data", n |-> avail, errno |-> "0"] : n \in {avail} \ {0}}
    \cup {[kind |-> "eof", n |-> 0, errno |-> "0"] : n \in {avail} \cap {0}}
    \cup {[kind |-> "err", n |-> -1, errno |-> e] : e \in Errnos}

\* Line 434: the errno values of a failed read() that are not fatal.
ReadRetryErrnos == {"EINTR"}

\* Mutants of StdinAdvance: head is not advanced; POLLIN is not withdrawn.
StdinAdvance_NoAdvance(q, p) == [q |-> q, p |-> p]

StdinAdvance_KeepPollin(q, p) ==
    [q |-> [q EXCEPT !.buf_head = Advance(q.buf_head)], p |-> p]

\* Lines 420-424: advance head past the buffer just submitted and withdraw
\* POLLIN when no spare buffer is left.
StdinAdvance(q, p) ==
    LET head == Advance(q.buf_head)
    IN  [q |-> [q EXCEPT !.buf_head = head],
         p |-> IF head = q.buf_tail
               THEN [p EXCEPT !.events = @ \ {POLLIN}]
               ELSE p]

\* Lines 430 and 444: end of input (a zero-length read, or POLLHUP / POLLERR
\* without POLLIN) marks the OUT direction as shut down.
StdinShutdown_AsError(q) == [q EXCEPT !.shutdown = TRUE, !.error = TRUE]

StdinShutdown(q) == [q EXCEPT !.shutdown = TRUE]

\* Lines 395-448: the handler of stdin, for one read() result and one
\* libusb_submit_transfer() result.
main_stdin_do(res, sub) ==
    LET q == usb_write_buf
        b == q.buf[q.buf_head]
        k == Min(res.n, ReadSize)
        filled == [xfer["w"][b] EXCEPT !.length = k, !.data = <<in_pos + 1, k>>]
        adv == StdinAdvance(q, fds[i])
    IN
    IF POLLIN \in revents[i]
    THEN
        IF q.buf_head = q.buf_tail
        THEN \* assert(q->buf_head != q->buf_tail), line 402
             /\ pc' = "abort"
             /\ ev' = {"assert:402"}
             /\ UNCHANGED <<queue, fds, xfer, inflight, i, ret, status, in_pos, in_avail,
                            n_reads, sub_pos, last_submit, submit_log>>
        ELSE IF b = NoBuf
        THEN \* read into a buffer pointer never set: undefined behaviour
             /\ pc' = "ub"
             /\ ev' = {"read"}
             /\ UNCHANGED <<queue, fds, xfer, inflight, i, ret, status, in_pos, in_avail,
                            n_reads, sub_pos, last_submit, submit_log>>
        ELSE IF res.kind = "data"
        THEN /\ xfer' = [xfer EXCEPT !["w"][b] = filled]
             /\ in_pos' = in_pos + k
             /\ in_avail' = in_avail - k
             /\ n_reads' = n_reads + 1
             /\ IF sub = "LIBUSB_SUCCESS"
                THEN /\ inflight' = [inflight EXCEPT !["w"] = Append(@, b)]
                     /\ last_submit' = <<filled.data[1], filled.length>>
                     /\ submit_log' = Append(submit_log, filled.length)
                     /\ sub_pos' = sub_pos + filled.length
                     /\ queue' = [queue EXCEPT !.w = adv.q]
                     /\ fds' = [fds EXCEPT ![i] = adv.p]
                     /\ ret' = ret - 1
                     /\ i' = i + 1
                     /\ ev' = {"read", "read:data", "submit:w"}
                     /\ UNCHANGED <<pc, status>>
                ELSE /\ pc' = "exit"
                     /\ status' = EXIT_FAILURE
                     /\ ev' = {"read", "read:data", "submit_failed:w"}
                     /\ UNCHANGED <<queue, fds, inflight, i, ret, sub_pos, last_submit, submit_log>>
        ELSE IF res.kind = "eof"
        THEN \* End of input, line 430
             /\ queue' = [queue EXCEPT !.w = StdinShutdown(@)]
             /\ ret' = ret - 1
             /\ i' = i + 1
             /\ ev' = {"read", "read:eof"}
             /\ UNCHANGED <<fds, xfer, inflight, pc, status, in_pos, in_avail, n_reads, sub_pos, last_submit, submit_log>>
        ELSE IF res.errno \in ReadRetryErrnos
        THEN /\ ret' = ret - 1
             /\ i' = i + 1
             /\ ev' = {"read", "read:" \o res.errno}
             /\ UNCHANGED <<queue, fds, xfer, inflight, pc, status, in_pos, in_avail,
                            n_reads, sub_pos, last_submit, submit_log>>
        ELSE /\ pc' = "exit"
             /\ status' = EXIT_FAILURE
             /\ ev' = {"read", "read:" \o res.errno}
             /\ UNCHANGED <<queue, fds, xfer, inflight, i, ret, in_pos, in_avail,
                            n_reads, sub_pos, last_submit, submit_log>>
    ELSE \* POLLHUP/POLLERR, line 444
        /\ queue' = [queue EXCEPT !.w = StdinShutdown(@)]
        /\ ret' = ret - 1
        /\ i' = i + 1
        /\ ev' = {"stdin_hup"}
        /\ UNCHANGED <<fds, xfer, inflight, pc, status, in_pos, in_avail, n_reads, sub_pos, last_submit, submit_log>>

main_stdin ==
    /\ InScan
    /\ Dispatch(i)
    /\ fds[i].fd = fd_in
    /\ \E res \in ReadResults(in_avail), sub \in LibusbResults : main_stdin_do(res, sub)
    /\ revents' = Scanned(i)
    /\ UNCHANGED <<cfg, dev_pos, n_in, out_pos, last_write>>

\* ----------------------------------------------------------- stdout handler
\* Results of write(fd_out, b->data + xfer_written, xfer_length - xfer_written):
\* k bytes accepted, 0 <= k <= the count asked for, or failure with an errno.
WriteResults(count) ==
    {[k |-> k, errno |-> "0"] : k \in 0..count}
    \cup {[k |-> -1, errno |-> e] : e \in Errnos}

\* Line 489: the errno values of a failed write() that are not fatal.
WriteRetryErrnos == {"EINTR"}

\* Mutant of WriteOffset: every write starts at the beginning of the buffer.
WriteOffset_Zero(q) == q.xfer_written - q.xfer_written

\* Line 458: the offset into the buffer the write starts at.
WriteOffset(q) == q.xfer_written

\* Mutant of FullySent: the buffer is released after any write into it.
FullySent_AnyWrite(q) == q.xfer_written > 0 \/ q.xfer_written = q.xfer_length

\* Line 465: the buffer at head has been sent to stdout in full.
FullySent(q) == q.xfer_written = q.xfer_length

\* Mutant of StdoutAdvance: POLLOUT is left asserted when the queue empties.
StdoutAdvance_KeepPollout(q, p) ==
    [q |-> [q EXCEPT !.buf_head = Advance(q.buf_head)], p |-> p]

\* Lines 477-484: advance head past the buffer just returned to USB; set the
\* cursor up for the next buffer when there is one, withdraw POLLOUT otherwise.
StdoutAdvance_NoAdvance(q, p) == [q |-> q, p |-> p]

StdoutAdvance(q, p) ==
    LET head == Advance(q.buf_head)
    IN  IF head # q.buf_tail
        THEN [q |-> [q EXCEPT !.buf_head = head, !.xfer_written = 0,
                              !.xfer_length = xfer["r"][q.buf[head]].actual_length],
              p |-> p]
        ELSE [q |-> [q EXCEPT !.buf_head = head],
              p |-> [p EXCEPT !.events = @ \ {POLLOUT}]]

\* Lines 450-497: the handler of stdout, for one write() result and one
\* libusb_submit_transfer() result.  ret-- on line 496 decrements the inner
\* ret (the ssize_t of line 458), so main()'s ret is left as it is.
main_stdout_do(res, sub) ==
    LET q == usb_read_buf
        b == q.buf[q.buf_head]
        w == [q EXCEPT !.xfer_written = @ + res.k]
        adv == StdoutAdvance(w, fds[i])
    IN
    IF q.buf_head = q.buf_tail
    THEN \* assert(q->buf_head != q->buf_tail), line 455
         /\ pc' = "abort"
         /\ ev' = {"assert:455"}
         /\ UNCHANGED <<queue, fds, xfer, inflight, i, status, out_pos, last_write>>
    ELSE IF b = NoBuf
    THEN /\ pc' = "ub"
         /\ ev' = {"write"}
         /\ UNCHANGED <<queue, fds, xfer, inflight, i, status, out_pos, last_write>>
    ELSE IF res.k >= 0
    THEN /\ last_write' = IF res.k > 0
                          THEN <<xfer["r"][b].data[1] + WriteOffset(q), res.k>>
                          ELSE last_write
         /\ out_pos' = out_pos + res.k
         /\ IF FullySent(w)
            THEN /\ xfer' = [xfer EXCEPT !["r"][b].length = USB_XFER_SZ]
                 /\ IF sub = "LIBUSB_SUCCESS"
                    THEN /\ inflight' = [inflight EXCEPT !["r"] = Append(@, b)]
                         /\ queue' = [queue EXCEPT !.r = adv.q]
                         /\ fds' = [fds EXCEPT ![i] = adv.p]
                         /\ i' = i + 1
                         /\ ev' = {"write", "submit:r"}
                         /\ UNCHANGED <<pc, status>>
                    ELSE /\ queue' = [queue EXCEPT !.r = w]
                         /\ pc' = "exit"
                         /\ status' = EXIT_FAILURE
                         /\ ev' = {"write", "submit_failed:r"}
                         /\ UNCHANGED <<fds, inflight, i>>
            ELSE /\ queue' = [queue EXCEPT !.r = w]
                 /\ i' = i + 1
                 /\ ev' = {"write"}
                 /\ UNCHANGED <<fds, xfer, inflight, pc, status>>
    ELSE IF res.errno \in WriteRetryErrnos
    THEN /\ i' = i + 1
         /\ ev' = {"write", "write:" \o res.errno}
         /\ UNCHANGED <<queue, fds, xfer, inflight, pc, status, out_pos, last_write>>
    ELSE /\ pc' = "exit"
         /\ status' = EXIT_FAILURE
         /\ ev' = {"write", "write:" \o res.errno}
         /\ UNCHANGED <<queue, fds, xfer, inflight, i, out_pos, last_write>>

main_stdout ==
    /\ InScan
    /\ Dispatch(i)
    /\ fds[i].fd = fd_out
    /\ \E res \in WriteResults(usb_read_buf.xfer_length - usb_read_buf.xfer_written),
          sub \in LibusbResults : main_stdout_do(res, sub)
    /\ revents' = Scanned(i)
    /\ UNCHANGED <<cfg, ret, in_pos, in_avail, n_reads, sub_pos, last_submit, submit_log, dev_pos, n_in>>

\* -------------------------------------------------------------- USB events
\* Lines 498-502: a USB descriptor is ready; libusb_handle_events_timeout()
\* is entered and runs the completion callbacks.
main_usb_events ==
    /\ InScan
    /\ Dispatch(i)
    /\ fds[i].fd = fd_usb
    /\ pc' = "usb"
    /\ revents' = ClearRevents
    /\ ev' = {"handle_events"}
    /\ UNCHANGED <<cfg, queue, fds, xfer, inflight, i, ret, status, in_pos, in_avail,
                   n_reads, sub_pos, last_submit, submit_log, dev_pos, n_in, out_pos, last_write>>

\* Mutant of main_usb_return: without the break the for loop goes on to the
\* descriptors that follow.
main_usb_return_NoBreak ==
    /\ pc = "usb"
    /\ \E r \in LibusbResults :
          IF r = "LIBUSB_SUCCESS"
          THEN pc' = "scan" /\ ret' = 1 /\ status' = status
          ELSE pc' = "exit" /\ ret' = -1 /\ status' = EXIT_FAILURE
    /\ ev' = {"handle_events_return"}
    /\ UNCHANGED <<cfg, queue, fds, revents, xfer, inflight, i, in_pos, in_avail,
                   n_reads, sub_pos, last_submit, submit_log, dev_pos, n_in, out_pos, last_write>>

\* Lines 502-508: libusb_handle_events_timeout() returns; on success ret is
\* LIBUSB_SUCCESS (0) and the break leaves the for loop.
main_usb_return ==
    /\ pc = "usb"
    /\ \E r \in LibusbResults :
          IF r = "LIBUSB_SUCCESS"
          THEN pc' = "test" /\ ret' = 0 /\ status' = status
          ELSE pc' = "exit" /\ ret' = -1 /\ status' = EXIT_FAILURE
    /\ ev' = {"handle_events_return"}
    /\ UNCHANGED <<cfg, queue, fds, revents, xfer, inflight, i, in_pos, in_avail,
                   n_reads, sub_pos, last_submit, submit_log, dev_pos, n_in, out_pos, last_write>>

\* Line 89: the event the callback unblocks, by the direction of the endpoint
\* (the read endpoint has LIBUSB_ENDPOINT_IN set, the write endpoint has not).
CallbackMask(d) == IF d = "r" THEN POLLOUT ELSE POLLIN

\* Lines 87-100: a completed transfer is added at the tail; when the queue
\* was empty (head == tail) and the direction is not shut down, the other
\* side is unblocked and the write cursor is set up.
CallbackEnqueue_NoAdvance(q, b, alen, unblock) ==
    LET stored == [q EXCEPT !.buf[q.buf_tail] = b]
    IN  IF q.buf_head = q.buf_tail /\ unblock
        THEN [stored EXCEPT !.xfer_written = 0, !.xfer_length = alen]
        ELSE stored

CallbackEnqueue(q, b, alen, unblock) ==
    LET stored == [q EXCEPT !.buf[q.buf_tail] = b]
        first == IF q.buf_head = q.buf_tail /\ unblock
                 THEN [stored EXCEPT !.xfer_written = 0, !.xfer_length = alen]
                 ELSE stored
    IN  [first EXCEPT !.buf_tail = Advance(q.buf_tail)]

\* Line 91: the condition under which the callback unblocks the other side.
CallbackUnblocks(q) == ~q.shutdown

\* Lines 110-118: the terminal statuses set the error flag.
CallbackError(q) == [q EXCEPT !.error = TRUE]

\* Lines 102-104: a timed-out transfer is submitted again; it is the oldest
\* transfer in flight and becomes the newest.
Resubmit_Drop(s) == Tail(s)

Resubmit(s) == Append(Tail(s), Head(s))

\* Lines 70-120: usb_callback for the oldest transfer in flight of direction
\* d, with the status st the device reports, actual_length alen and, for a
\* timed-out transfer, the result rs of libusb_submit_transfer().
usb_callback(d, st, alen, rs) ==
    LET q == queue[d]
        b == Head(inflight[d])
        mask == CallbackMask(d)
        done == [xfer[d][b] EXCEPT
                    !.actual_length = alen,
                    !.data = IF d = "r" THEN <<dev_pos + 1, alen>> ELSE @]
    IN
    /\ pc = "usb"
    /\ inflight[d] # <<>>
    /\ IF q.buf_head = Advance(q.buf_tail)
       THEN \* assert(q->buf_head != buf_tail), line 79
            /\ pc' = "abort"
            /\ ev' = {"assert:79"}
            /\ UNCHANGED <<queue, fds, xfer, inflight, status, dev_pos, n_in>>
       ELSE IF st = "LIBUSB_TRANSFER_COMPLETED"
       THEN /\ d = "r" => n_in < MaxIn
            /\ alen \in (IF d = "r" THEN InLens ELSE {xfer[d][b].length})
            /\ rs = "LIBUSB_SUCCESS"
            /\ IF q.buf_head = q.buf_tail /\ mask \in fds[q.pollfd].events
               THEN \* assert(!(q->pollfd->events & mask)), line 90
                    /\ pc' = "abort"
                    /\ ev' = {"assert:90"}
                    /\ UNCHANGED <<queue, fds, xfer, inflight, status, dev_pos, n_in>>
               ELSE /\ xfer' = [xfer EXCEPT ![d][b] = done]
                    /\ dev_pos' = IF d = "r" THEN dev_pos + alen ELSE dev_pos
                    /\ n_in' = IF d = "r" THEN n_in + 1 ELSE n_in
                    /\ inflight' = [inflight EXCEPT ![d] = Tail(@)]
                    /\ queue' = [queue EXCEPT ![d] =
                                    CallbackEnqueue(q, b, alen, CallbackUnblocks(q))]
                    /\ fds' = IF q.buf_head = q.buf_tail /\ CallbackUnblocks(q)
                              THEN [fds EXCEPT ![q.pollfd].events = @ \cup {mask}]
                              ELSE fds
                    /\ ev' = {"callback:" \o d, "completed:" \o d}
                    /\ UNCHANGED <<pc, status>>
       ELSE IF st = "LIBUSB_TRANSFER_TIMED_OUT"
       THEN /\ alen = 0
            /\ IF rs = "LIBUSB_SUCCESS"
               THEN /\ inflight' = [inflight EXCEPT ![d] = Resubmit(@)]
                    /\ ev' = {"callback:" \o d, "timed_out:" \o d, "submit:" \o d}
                    /\ UNCHANGED <<pc, status>>
               ELSE \* exit(1), line 107
                    /\ inflight' = [inflight EXCEPT ![d] = Tail(@)]
                    /\ pc' = "exit"
                    /\ status' = 1
                    /\ ev' = {"callback:" \o d, "timed_out:" \o d, "submit_failed:" \o d}
            /\ UNCHANGED <<queue, fds, xfer, dev_pos, n_in>>
       ELSE /\ alen = 0
            /\ rs = "LIBUSB_SUCCESS"
            /\ queue' = [queue EXCEPT ![d] = CallbackError(q)]
            /\ inflight' = [inflight EXCEPT ![d] = Tail(@)]
            /\ ev' = {"callback:" \o d, "failed:" \o d}
            /\ UNCHANGED <<fds, xfer, pc, status, dev_pos, n_in>>
    /\ UNCHANGED <<cfg, revents, i, ret, in_pos, in_avail, n_reads, sub_pos, last_submit, submit_log, out_pos, last_write>>

main_callbacks ==
    \E d \in Dirs, st \in Statuses, rs \in LibusbResults :
        \E alen \in InLens \cup {0} \cup {xfer["w"][b].length : b \in DOMAIN xfer["w"]} :
            usb_callback(d, st, alen, rs)

Next == main_loop_test \/ main_poll \/ main_scan_end \/ main_scan_skip
        \/ main_stdin \/ main_stdout
        \/ main_usb_events \/ main_callbacks \/ main_usb_return

Spec == Init /\ [][Next]_vars

\* ---------------------------------------------------------------- fairness
\* Lines 388, 498-502: poll() reports the USB descriptors ready, which it does
\* once a transfer has finished and libusb has a completion to deliver.
poll_usb_ready == main_poll /\ revents'[fd_num] # {}

\* Lines 83-101, 110-118: the oldest OUT transfer in flight finishes, with
\* success or with a terminal status, and its callback runs.
out_completion ==
    \E st \in Statuses \ {"LIBUSB_TRANSFER_TIMED_OUT"}, rs \in LibusbResults :
        \E alen \in {0} \cup {xfer["w"][b].length : b \in DOMAIN xfer["w"]} :
            usb_callback("w", st, alen, rs)

\* The loop keeps running while it can, poll() keeps reporting the USB
\* descriptors, and every OUT transfer in flight finishes in the end.
FairSpec ==
    /\ Spec
    /\ WF_vars(Next)
    /\ SF_vars(poll_usb_ready)
    /\ SF_vars(out_completion)

\* ================================================================== claims
\* Number of entries in the ring: (tail - head) mod USB_BUFS.
Occupied(q) == (q.buf_tail - q.buf_head + USB_BUFS) % USB_BUFS

\* The interest mask of the descriptor a queue is registered with.
Events(q) == IF q.pollfd = 0 THEN {} ELSE fds[q.pollfd].events

\* The while loop was left through the shutdown part of its condition.
CleanShutdown ==
    /\ usb_write_buf.shutdown
    /\ Advance(usb_write_buf.buf_tail) = usb_write_buf.buf_head
    /\ ~usb_write_buf.error
    /\ ~usb_read_buf.error

\* C1: the exit status is 0 only when the loop ended through the clean
\* shutdown predicate with no error flag set; when the loop ends because a
\* completion callback set an error flag, the exit status is non-zero.
\* (The code returns EXIT_SUCCESS after the loop whatever ended it.)
C1_ExitStatus ==
    (pc = "exit" /\ status = 0) => CleanShutdown

\* C2: for each direction the ring never holds more than USB_BUFS - 1
\* entries, and whenever a transfer of the direction is in flight, so that
\* usb_callback can be invoked for it, (tail + 1) mod USB_BUFS differs from
\* head: the assertion of line 79 never fails.
C2_Capacity ==
    \A d \in Dirs :
        /\ Occupied(queue[d]) <= USB_BUFS - 1
        /\ inflight[d] # <<>> => Advance(queue[d].buf_tail) # queue[d].buf_head
        /\ "assert:79" \notin ev

\* A completion callback has just filled the inbound ring to USB_BUFS - 1
\* entries while the outbound ring has a transfer in flight.
C2_Witness ==
    /\ "completed:r" \in ev
    /\ Occupied(usb_read_buf) = USB_BUFS - 1
    /\ inflight["w"] # <<>>

\* C3: once the outbound shutdown flag is set no step reads stdin, and the
\* loop is not left through its condition, with no error flag set, while an
\* OUT transfer is still in flight.
C3_ShutdownDrain ==
    [][/\ usb_write_buf.shutdown => "read" \notin ev'
       /\ (pc = "test" /\ pc' = "exit" /\ ~usb_write_buf.error /\ ~usb_read_buf.error)
            => (usb_write_buf.shutdown /\ inflight["w"] = <<>>)]_vars

\* The loop has ended cleanly after a shutdown that found a transfer in
\* flight: its completion ran under shutdown and left POLLIN withdrawn.
C3_Witness ==
    /\ pc = "exit"
    /\ CleanShutdown
    /\ n_reads > 0
    /\ POLLIN \notin Events(usb_write_buf)
    /\ "test" \in ev

\* C4: the stdout handler is only dispatched when the inbound ring is
\* non-empty, for every poll result on stdout: the assertion of line 455
\* never fails.  (POLLHUP and POLLERR stay in the interest mask while
\* POLLOUT is withdrawn, so a hang-up dispatches the handler on an empty ring.)
C4_OutputAssert ==
    /\ (InScan /\ Dispatch(i) /\ fds[i].fd = fd_out)
         => usb_read_buf.buf_head # usb_read_buf.buf_tail
    /\ "assert:455" \notin ev

\* C5: a read of stdin that fails with EAGAIN or EINTR is a no-op: queue
\* state, interest masks and transfers in flight are unchanged and the
\* process does not exit.  (The code retries on EINTR only.)
C5_ReadRetry ==
    [][("read:EAGAIN" \in ev' \/ "read:EINTR" \in ev')
         => (queue' = queue /\ fds' = fds /\ inflight' = inflight /\ pc' = pc)]_vars

\* C6: with the inbound direction enabled, POLLOUT is in the interest mask
\* of stdout if and only if the inbound ring is non-empty.
C6_OutputGating ==
    cfg.r => (POLLOUT \in Events(usb_read_buf)
                <=> usb_read_buf.buf_head # usb_read_buf.buf_tail)

\* POLLOUT is asserted for a buffer that is partially written to stdout.
C6_Witness ==
    /\ cfg.r
    /\ POLLOUT \in Events(usb_read_buf)
    /\ 0 < usb_read_buf.xfer_written
    /\ usb_read_buf.xfer_written < usb_read_buf.xfer_length

\* C7 as stated: in every reachable state of the outbound direction POLLIN
\* is in the interest mask of stdin if and only if the ring has a free
\* buffer (head # tail).
C7_InputGatingAlways ==
    cfg.w => (POLLIN \in Events(usb_write_buf)
                <=> usb_write_buf.buf_head # usb_write_buf.buf_tail)

\* C7 amended: while the shutdown flag is clear POLLIN is in the interest
\* mask of stdin if and only if the ring has a free buffer; after shutdown a
\* completion frees a buffer without re-asserting POLLIN, so POLLIN in the
\* mask still implies a free buffer.
C7_InputGating ==
    cfg.w =>
        /\ ~usb_write_buf.shutdown =>
              (POLLIN \in Events(usb_write_buf)
                 <=> usb_write_buf.buf_head # usb_write_buf.buf_tail)
        /\ POLLIN \in Events(usb_write_buf)
              => usb_write_buf.buf_head # usb_write_buf.buf_tail

\* An OUT completion has just re-asserted POLLIN after a read had consumed
\* the last free buffer and withdrawn it.
C7_Witness ==
    /\ "completed:w" \in ev
    /\ ~usb_write_buf.shutdown
    /\ POLLIN \in Events(usb_write_buf)
    /\ n_reads > 0

\* C8: a write to stdout starts at offset xfer_written of the buffer at
\* head; when it accepts k bytes with xfer_written + k < xfer_length, head is
\* not advanced, nothing is submitted and the cursor becomes xfer_written + k;
\* head is advanced, and the buffer resubmitted, only by a write that brings
\* xfer_written to xfer_length; when another buffer is queued then, the
\* cursor is reset to 0 and the length to that buffer's actual_length.
C8_PartialWrite ==
    [][LET q == usb_read_buf
           n == usb_read_buf'
           k == out_pos' - out_pos
       IN  /\ ("write" \in ev' /\ pc' # "ub" /\ k > 0)
                => last_write' = <<xfer["r"][q.buf[q.buf_head]].data[1] + q.xfer_written, k>>
           /\ ("write" \in ev' /\ q.xfer_written + k < q.xfer_length)
                => /\ n.buf_head = q.buf_head
                   /\ n.xfer_written = q.xfer_written + k
                   /\ n.xfer_length = q.xfer_length
                   /\ inflight' = inflight
                   /\ "submit:r" \notin ev'
           /\ n.buf_head # q.buf_head
                => /\ "write" \in ev'
                   /\ q.xfer_written + k = q.xfer_length
                   /\ inflight'["r"] = Append(inflight["r"], q.buf[q.buf_head])
                   /\ n.buf_head # n.buf_tail
                        => /\ n.xfer_written = 0
                           /\ n.xfer_length = xfer'["r"][n.buf[n.buf_head]].actual_length
      ]_vars

\* A buffer has been released by a write that was not its first: the last
\* write carried fewer bytes than the transfer that was just resubmitted.
C8_Witness ==
    /\ "write" \in ev
    /\ "submit:r" \in ev
    /\ last_write[2] > 0
    /\ last_write[2] < xfer["r"][inflight["r"][Len(inflight["r"])]].actual_length
    /\ last_write[1] + last_write[2] - 1 = dev_pos

\* C9: every OUT transfer submitted after a read carries exactly the bytes
\* that read took from stdin, and these follow the bytes of the previous
\* submission; every write to stdout carries the bytes that follow the last
\* byte written, in the order the device delivered them.
C9_Fifo ==
    [][/\ "read:data" \in ev' /\ "submit:w" \in ev'
            => /\ last_submit' = <<in_pos + 1, in_pos' - in_pos>>
               /\ last_submit'[1] = sub_pos + 1
               /\ sub_pos' = in_pos'
       /\ out_pos' # out_pos
            => /\ last_write' = <<out_pos + 1, out_pos' - out_pos>>
               /\ out_pos' <= dev_pos
      ]_vars

\* Two reads were submitted and two IN transfers, the second with data
\* written in several writes, were delivered to stdout in full.
C9_Witness ==
    /\ n_reads >= 2
    /\ sub_pos = in_pos
    /\ n_in >= 2
    /\ out_pos = dev_pos
    /\ out_pos > 3
    /\ last_write[2] < 3

\* C10: a completion with a terminal status sets the error flag of its
\* direction and changes nothing else of the queue nor any interest mask;
\* from then on no transfer is submitted on that direction, stdin is not
\* read and stdout is not written, and the loop ends at its next test.
C10_TerminalStatus ==
    [][\A d \in Dirs :
        /\ "failed:" \o d \in ev'
             => /\ queue'[d] = [queue[d] EXCEPT !.error = TRUE]
                /\ fds' = fds
        /\ queue[d].error
             => /\ ev' \cap {"submit:" \o d, "read", "write"} = {}
                /\ pc \in {"usb", "test", "exit"}
                /\ pc = "test" => pc' = "exit"
      ]_vars

\* The loop has ended on an inbound error while an OUT transfer was still
\* in flight.
C10_Witness ==
    /\ pc = "exit"
    /\ usb_read_buf.error
    /\ inflight["w"] # <<>>
\* The process has ended: by a return from main, by exit(), or by abort().
Terminated == pc \in {"exit", "abort"}

\* C11: once stdin is shut down with OUT transfers in flight, and every such
\* transfer finishes in the end, the loop terminates; and when the completion
\* of the last OUT transfer in flight has been processed under shutdown, the
\* next test of the while condition ends the loop: poll() is not called again.
C11_ShutdownTerminates ==
    /\ (usb_write_buf.shutdown /\ inflight["w"] # <<>>) ~> Terminated
    /\ [][(usb_write_buf.shutdown /\ inflight["w"] = <<>> /\ pc \in {"usb", "test"})
             => pc' \in {"usb", "test", "exit", "abort"}]_vars

\* The last OUT transfer in flight has just completed under shutdown.
C11_Witness ==
    /\ usb_write_buf.shutdown
    /\ inflight["w"] = <<>>
    /\ "completed:w" \in ev
    /\ pc = "usb"

\* C12: a read of stdin that returns k > 0 bytes takes k = min(available,
\* USB_XFER_SZ / 2) bytes and makes one submission of an OUT transfer of
\* length k (which libusb accepts, or the process ends); so an input of 100
\* bytes is submitted as one transfer of 100 bytes and an input of 600 bytes
\* as transfers of 256, 256 and 88 bytes, in that order.
C12_ReadSubmits ==
    /\ [][ "read:data" \in ev' =>
              LET k == in_pos' - in_pos
                  b == usb_write_buf.buf[usb_write_buf.buf_head]
              IN  /\ k > 0
                  /\ k <= USB_XFER_SZ \div 2
                  /\ k = Min(in_avail, USB_XFER_SZ \div 2)
                  /\ in_avail' = in_avail - k
                  /\ xfer'["w"][b].length = k
                  /\ \/ /\ "submit:w" \in ev'
                        /\ inflight'["w"] = Append(inflight["w"], b)
                        /\ submit_log' = Append(submit_log, k)
                        /\ last_submit' = <<in_pos + 1, k>>
                     \/ /\ "submit_failed:w" \in ev'
                        /\ inflight' = inflight
                        /\ submit_log' = submit_log
                        /\ pc' = "exit" ]_vars
    /\ [](Len(submit_log) <= n_reads)
    /\ []((in_avail = 0 /\ Len(submit_log) = n_reads) =>
            /\ in_pos = 100 => submit_log = <<100>>
            /\ in_pos = 600 => submit_log = <<256, 256, 88>>)

\* An input of 600 bytes has been read and submitted whole.
C12_Witness ==
    /\ in_pos = 600
    /\ in_avail = 0
    /\ submit_log = <<256, 256, 88>>

\* C13: on stdin a zero-length read, and POLLHUP or POLLERR reported without
\* POLLIN, set the shutdown flag of the OUT direction and change nothing else
\* of the queues: no transfer is submitted, head, tail and the interest masks
\* are unchanged, the error flag keeps its value and the loop goes on.
C13_ShutdownOnly ==
    [][("read:eof" \in ev' \/ "stdin_hup" \in ev') =>
          /\ ("stdin_hup" \in ev') = (POLLIN \notin revents[i])
          /\ usb_write_buf'.shutdown
          /\ queue' = [queue EXCEPT !.w.shutdown = TRUE]
          /\ ~usb_write_buf.error => ~usb_write_buf'.error
          /\ UNCHANGED <<fds, xfer, inflight, in_pos, sub_pos, submit_log, pc, status>>]_vars

\* A hang-up has just been handled while an OUT transfer was in flight.
C13_Witness ==
    /\ "stdin_hup" \in ev
    /\ usb_write_buf.shutdown
    /\ ~usb_write_buf.error
    /\ inflight["w"] # <<>>

\* C14: whenever POLLIN is in the interest mask of stdin, or poll() has
\* reported it for stdin, the OUT ring has a spare buffer at its head
\* (head != tail), also after shutdown; the assertion of line 402 never fails.
C14_ReadHasBuffer ==
    /\ "assert:402" \notin ev
    /\ \A k \in 1..fd_num :
          (fds[k].fd = fd_in /\ POLLIN \in (fds[k].events \cup revents[k])) =>
              /\ usb_write_buf.buf_head # usb_write_buf.buf_tail
              /\ usb_write_buf.buf[usb_write_buf.buf_head] # NoBuf

\* End of input has been read and stdin is still asked for POLLIN.
C14_Witness ==
    /\ "read:eof" \in ev
    /\ usb_write_buf.shutdown
    /\ POLLIN \in Events(usb_write_buf)
    /\ usb_write_buf.buf_head # usb_write_buf.buf_tail
    /\ n_reads > 0

\* C15: a completion with status LIBUSB_TRANSFER_TIMED_OUT submits the same
\* transfer again and leaves both queues as they were: head, tail, the ring,
\* the write cursor, the shutdown and error flags and the interest masks; the
\* process goes on unless libusb rejects the resubmission.
C15_TimeoutResubmits ==
    [][\A d \in Dirs :
          ("timed_out:" \o d) \in ev' =>
              /\ inflight[d] # <<>>
              /\ queue' = queue
              /\ fds' = fds
              /\ xfer' = xfer
              /\ \/ /\ ("submit:" \o d) \in ev'
                    /\ Len(inflight'[d]) = Len(inflight[d])
                    /\ inflight'[d][Len(inflight'[d])] = Head(inflight[d])
                    /\ pc' = pc
                    /\ status' = status
                 \/ /\ ("submit_failed:" \o d) \in ev'
                    /\ pc' = "exit"
                    /\ status' = EXIT_FAILURE]_vars

\* A timed-out IN transfer has been submitted again.
C15_Witness ==
    /\ "timed_out:r" \in ev
    /\ "submit:r" \in ev
    /\ inflight["r"] # <<>>
    /\ ~usb_read_buf.error
    /\ ~usb_write_buf.shutdown
    /\ pc = "usb"

\* The tags of the steps of the stdin and stdout handlers, and of usb_callback.
HandlerTags == {"read", "stdin_hup", "write", "assert:402", "assert:455"}
CallbackTags == {"callback:" \o d : d \in Dirs} \cup {"assert:79", "assert:90"}

\* C16: callbacks run only inside libusb_handle_events_timeout(); once it has
\* been called the for loop is left without running a stdin or stdout
\* handler, and the while condition is tested and poll() called before a
\* handler runs again: the queues change by callbacks only between the call
\* and its return, and a handler runs only in a scan that a poll() started.
C16_DispatchOrder ==
    [][/\ (ev' \cap CallbackTags # {}) => (pc = "usb" /\ pc' \in {"usb", "exit", "abort"})
       /\ (ev' \cap HandlerTags # {}) => (pc = "scan" /\ pc' \in {"scan", "exit", "abort", "ub"})
       /\ pc = "usb" => /\ pc' \in {"usb", "test", "exit", "abort"}
                        /\ ev' \cap HandlerTags = {}
       /\ (pc = "usb" /\ pc' = "test") => ev' = {"handle_events_return"}
       /\ pc = "test" => pc' \in {"poll", "exit"}
       /\ pc = "poll" => pc' \in {"scan", "test", "exit"}
       /\ pc' = "scan" => pc \in {"poll", "scan"}
       /\ pc' = "usb" => (pc = "usb" \/ (pc = "scan" /\ ev' = {"handle_events"}))
       /\ (pc # "usb" /\ ev' \cap HandlerTags = {}) => UNCHANGED <<queue, fds, xfer, inflight>>]_vars

\* libusb_handle_events_timeout() has returned after a callback made an IN
\* buffer ready for stdout; the loop is back at its condition.
C16_Witness ==
    /\ ev = {"handle_events_return"}
    /\ pc = "test"
    /\ POLLOUT \in Events(usb_read_buf)
    /\ n_in > 0
    /\ out_pos = 0

\* The buffers held by the entries of the ring, from head up to tail.
RingBuffers(q) == {q.buf[(q.buf_head + j) % USB_BUFS] : j \in 0..(Occupied(q) - 1)}

\* The buffers of the transfers in flight.
InFlightBuffers(d) == {inflight[d][k] : k \in 1..Len(inflight[d])}

\* Conservation of the buffers of direction d.
Conserved(d) ==
    /\ Len(inflight[d]) + Occupied(queue[d]) = USB_BUFS - 1
    /\ Cardinality(InFlightBuffers(d)) = Len(inflight[d])
    /\ Cardinality(RingBuffers(queue[d])) = Occupied(queue[d])
    /\ InFlightBuffers(d) \cap RingBuffers(queue[d]) = {}
    /\ InFlightBuffers(d) \cup RingBuffers(queue[d]) = 0..(USB_BUFS - 2)

C18_NoInputDropped ==
    (pc = "exit" /\ "test" \in ev /\ CleanShutdown /\ cfg.w) =>
        (in_avail = 0 /\ sub_pos = in_pos)

\* C19: without a write endpoint stdin is not in the poll set and is never
\* read, the shutdown flag of the OUT direction is never set, and the process
\* ends only with an error flag set or by a fatal failure: the while loop is
\* never left through the shutdown part of its condition.
C19_ReadOnly ==
    ~cfg.w =>
        /\ \A k \in 1..fd_num : fds[k].fd # fd_in
        /\ usb_write_buf.pollfd = 0
        /\ ~usb_write_buf.shutdown
        /\ in_pos = 0 /\ n_reads = 0
        /\ ev \cap {"read", "stdin_hup", "assert:402"} = {}
        /\ ~CleanShutdown
        /\ (pc = "exit" /\ "test" \in ev) => usb_read_buf.error
        /\ pc = "exit" => (usb_read_buf.error \/ status = EXIT_FAILURE)

\* In read-only mode the loop has ended because an IN transfer failed.
C19_Witness ==
    /\ ~cfg.w
    /\ pc = "exit"
    /\ "test" \in ev
    /\ usb_read_buf.error
    /\ out_pos > 0

====
